---- MODULE Spec2Model ----
(***************************************************************************)
(* Environmental Query Gateway (src/app.py): a Flask application whose     *)
(* fourteen routes each run one SQL statement against the shared store     *)
(* connection `conn`, or one call to the text-generation client, and wrap  *)
(* the outcome in a JSON response.                                         *)
(*                                                                         *)
(* The server gives each request a thread of its own.  A view blocks in    *)
(* its call to the store or to the service; while it waits, other requests *)
(* are received, handled and answered.  `waiting` holds the views blocked  *)
(* in their call.  Between two blocking calls one thread at a time runs    *)
(* the interpreter, and no view writes a module-level name or the store,   *)
(* so a step of the model is a view running from its entry, or from the    *)
(* return of its call, to its next call or to its return; `request`,       *)
(* `response` and `outbound` are those of the view that has just returned. *)
(*                                                                         *)
(* Text values (timestamps, date parameters, bucket labels) are sequences  *)
(* of their fixed-width numeric fields: "2024-01-31 09:.." is              *)
(* <<2024, 1, 31, 9>> and "2024-01-31" is <<2024, 1, 31>>.  The store      *)
(* compares text bytewise, a proper prefix sorting first; on zero-padded   *)
(* fields that is the field-wise order TextLess computes.                  *)
(***************************************************************************)
EXTENDS Integers, Sequences, FiniteSets, Bags, TLC

VARIABLES phase, conn, temperature, motion, waiting, request, response, outbound

vars == <<phase, conn, temperature, motion, waiting, request, response, outbound>>

\* ------------------------------------------------------------ bounds
\* Rows held by the two tables together in the exhaustively enumerated stores.
MaxRows == 2
\* The large stores hold RawLimit and RawLimit + BigExtra rows.
BigExtra == 1
\* Views in progress at the same time; the server itself sets no limit.
MaxViews == 2

\* ------------------------------------------------- program constants
\* LIMIT 100 of the two raw-fetch statements.
RawLimit == 100
\* LIMIT 1 of the two peak statements.
PeakLimit == 1

\* --------------------------------------------------------- text order
Min(a, b) == IF a <= b THEN a ELSE b

\* a < b in the store's text order (bytewise, a proper prefix first);
\* a one-field sequence <<n>> carries a number, ordered numerically.
TextLess(a, b) ==
    \E i \in 1..(Min(Len(a), Len(b)) + 1) :
        /\ \A j \in 1..(i - 1) : a[j] = b[j]
        /\ \/ i <= Len(a) /\ i <= Len(b) /\ a[i] < b[i]
           \/ i = Len(a) + 1 /\ i <= Len(b)

TextLeq(a, b) == ~TextLess(b, a)

\* x BETWEEN lo AND hi
Between(x, lo, hi) == TextLeq(lo, x) /\ TextLeq(x, hi)

\* ------------------------------------------------ date/time functions
IsLeap(y) == (y % 4 = 0 /\ y % 100 # 0) \/ y % 400 = 0

DaysInMonth(y, m) ==
    IF m = 2 THEN (IF IsLeap(y) THEN 29 ELSE 28)
    ELSE IF m \in {4, 6, 9, 11} THEN 30 ELSE 31

RECURSIVE DaysBeforeMonth(_, _)
DaysBeforeMonth(y, m) ==
    IF m = 1 THEN 0 ELSE DaysBeforeMonth(y, m - 1) + DaysInMonth(y, m - 1)

\* days since 1 January, from 0
DayOfYear(ts) == DaysBeforeMonth(ts[1], ts[2]) + ts[3] - 1

\* days since Monday of 1 January of year y
Jan1AfterMonday(y) ==
    ((y + ((y - 1) \div 4) - ((y - 1) \div 100) + ((y - 1) \div 400)) + 6) % 7

DaysAfterMonday(ts) == (Jan1AfterMonday(ts[1]) + DayOfYear(ts)) % 7

\* DATE(timestamp): 'YYYY-MM-DD'
DateOf(ts) == <<ts[1], ts[2], ts[3]>>

\* STRFTIME('%Y-%m', timestamp)
MonthOf(ts) == <<ts[1], ts[2]>>

\* STRFTIME('%Y-%W', timestamp): week of the year, weeks starting on Monday,
\* the days before the year's first Monday being week 00
WeekOf(ts) == <<ts[1], (DayOfYear(ts) + 7 - DaysAfterMonday(ts)) \div 7>>

\* STRFTIME('%H', timestamp)
HourOf(ts) == <<ts[4]>>

\* ------------------------------------------------------------ values
\* Timestamps of the rows: Sunday 31 December 2023, Monday 1 January 2024,
\* two readings on 31 January 2024, and 1 February 2024.
Timestamps ==
    { <<2023, 12, 31, 23>>, <<2024, 1, 1, 9>>, <<2024, 1, 31, 9>>,
      <<2024, 1, 31, 18>>, <<2024, 2, 1, 0>> }

Temperatures == {-5, 20}

MotionFlags == {0, 1}

\* Values of a query parameter when it is supplied: '' and two dates.
ParamValues == { <<>>, <<2024, 1, 1>>, <<2024, 1, 31>> }

Absent == [present |-> FALSE, value |-> <<>>]

Params == {Absent} \cup {[present |-> TRUE, value |-> v] : v \in ParamValues}

NoArgs == [start_date |-> Absent, end_date |-> Absent]

\* JSON bodies of POST /summarize: none, unparsable, or a JSON value.
JsonValues ==
    {[type |-> "null", members |-> {}]}
        \cup {[type |-> "object", members |-> ks] : ks \in SUBSET {"data", "other"}}
        \cup {[type |-> "array", members |-> ks] : ks \in SUBSET {"0"}}

NoBody == [kind |-> "absent", json |-> [type |-> "null", members |-> {}]]

Bodies ==
    {NoBody, [kind |-> "malformed", json |-> [type |-> "null", members |-> {}]]}
        \cup {[kind |-> "json", json |-> v] : v \in JsonValues}

\* Texts the text-generation service answers with (characters; " " is blank).
Contents == { <<>>, <<"a">>, <<" ", "a", "b", " ">> }

\* Completions the service call returns: no choice at all, or one choice whose
\* message has no content or carries a text.
Completions ==
    {[choices |-> 0, content |-> Absent],
     [choices |-> 1, content |-> Absent]}
        \cup {[choices |-> 1, content |-> [present |-> TRUE, value |-> c]] :
                  c \in Contents}

\* Messages of the exceptions the store driver and the service client raise.
StoreErrors == {"connection lost", "no such table"}

ClientErrors == {"service unavailable"}

\* ------------------------------------------------------- the store's SQL
\* Each row paired with the number of rows the ordering places strictly
\* before it.
Rank(rows, keyOf, desc) ==
    {<<r, Cardinality({q \in rows :
                IF desc THEN TextLess(keyOf[r], keyOf[q])
                        ELSE TextLess(keyOf[q], keyOf[r])})>> : r \in rows}

\* The rows of rank b: rows whose keys are equal.
TieGroup(ranked, b) == {p[1] : p \in {q \in ranked : q[2] = b}}

\* Every way of listing m rows of g.
RECURSIVE Selections(_, _)
Selections(g, m) ==
    IF m = 0 THEN {<<>>}
    ELSE UNION {{<<r>> \o s : s \in Selections(g \ {r}, m - 1)} : r \in g}

\* For the groups of equal keys starting at the ranks in `tied`, every choice
\* of a listing of each group, cut to the n rows returned.
RECURSIVE TieChoices(_, _, _)
TieChoices(tied, ranked, n) ==
    IF tied = {} THEN {<<>>}
    ELSE LET b == CHOOSE x \in tied : TRUE
             g == TieGroup(ranked, b)
         IN  {(b :> a) @@ c :
                a \in Selections(g, Min(Cardinality(g), n - b)),
                c \in TieChoices(tied \ {b}, ranked, n)}

\* ORDER BY key [DESC] LIMIT limit: the result sets the store may return.
\* Rows of equal key come in an order the store does not define.
OrderBy(rows, keyOf, desc, limit) ==
    LET ranked == Rank(rows, keyOf, desc)
        n == Min(limit, Cardinality(rows))
        starts == {p[2] : p \in ranked} \cap (0..(n - 1))
        tied == {b \in starts : Cardinality(TieGroup(ranked, b)) > 1}
        StartOf(i) ==
            IF (i - 1) \in starts THEN i - 1
            ELSE CHOOSE b \in tied : b < i /\ i <= b + Cardinality(TieGroup(ranked, b))
    IN  IF n = 0 THEN {<<>>}
        ELSE {[i \in 1..n |->
                 LET b == StartOf(i)
                 IN  IF b \in tied THEN c[b][i - b]
                     ELSE CHOOSE r \in TieGroup(ranked, b) : TRUE] :
              c \in TieChoices(tied, ranked, n)}

\* GROUP BY Bucket(timestamp): one group per distinct bucket of the rows.
GroupBy(table, bucketOf) ==
    {[rows |-> {r \in table : bucketOf[r] = b}, label |-> b] :
        b \in {bucketOf[r] : r \in table}}

RECURSIVE SumTemperature(_)
SumTemperature(rows) ==
    IF rows = {} THEN 0
    ELSE LET r == CHOOSE x \in rows : TRUE
         IN  r.temperature + SumTemperature(rows \ {r})

Abs(n) == IF n < 0 THEN -n ELSE n

RECURSIVE Gcd(_, _)
Gcd(a, b) == IF b = 0 THEN a ELSE Gcd(b, a % b)

\* The rational n/d in lowest terms, d > 0.
Fraction(n, d) ==
    LET g == Gcd(Abs(n), d) IN [num |-> n \div g, den |-> d \div g]

\* AVG(temperature) over a non-empty group
Avg(rows) == Fraction(SumTemperature(rows), Cardinality(rows))

\* Variant of Count: COUNT of the rows whose motion_detected flag is set.
CountDetected(rows) == Cardinality({r \in rows : r.motion_detected = 1})

\* COUNT( * ) over a group
Count(rows) == Cardinality(rows)

TimestampKey(rows) == [r \in rows |-> r.timestamp]

\* Variant of SelectRaw: ORDER BY timestamp LIMIT 100, without DESC.
SelectRawAscending(table) == OrderBy(table, TimestampKey(table), FALSE, RawLimit)

\* SELECT * FROM <table> ORDER BY timestamp DESC LIMIT 100
SelectRaw(table) == OrderBy(table, TimestampKey(table), TRUE, RawLimit)

\* SELECT * FROM <table> WHERE timestamp BETWEEN ? AND ? ORDER BY timestamp DESC
SelectRange(table, lo, hi) ==
    LET m == {r \in table : Between(r.timestamp, lo, hi)}
    IN  OrderBy(m, TimestampKey(m), TRUE, Cardinality(m))

\* SELECT DATE(timestamp) as date, AVG(temperature) as average_temp ...
\* GROUP BY DATE(timestamp) ORDER BY DATE(timestamp) DESC
SelectDailyAverage(table) ==
    LET out == {[date |-> g.label, average_temp |-> Avg(g.rows)] :
                    g \in GroupBy(table, [r \in table |-> DateOf(r.timestamp)])}
    IN  OrderBy(out, [o \in out |-> o.date], TRUE, Cardinality(out))

\* SELECT STRFTIME('%Y-%W', timestamp) as week, AVG(temperature) ... DESC
SelectWeeklyAverage(table) ==
    LET out == {[average_temp |-> Avg(g.rows), week |-> g.label] :
                    g \in GroupBy(table, [r \in table |-> WeekOf(r.timestamp)])}
    IN  OrderBy(out, [o \in out |-> o.week], TRUE, Cardinality(out))

\* SELECT STRFTIME('%Y-%m', timestamp) as month, AVG(temperature) ... DESC
SelectMonthlyAverage(table) ==
    LET out == {[average_temp |-> Avg(g.rows), month |-> g.label] :
                    g \in GroupBy(table, [r \in table |-> MonthOf(r.timestamp)])}
    IN  OrderBy(out, [o \in out |-> o.month], TRUE, Cardinality(out))

\* SELECT DATE(timestamp) as date, COUNT( * ) as motion_count ... DESC
SelectMotionByDay(table) ==
    LET out == {[date |-> g.label, motion_count |-> Count(g.rows)] :
                    g \in GroupBy(table, [r \in table |-> DateOf(r.timestamp)])}
    IN  OrderBy(out, [o \in out |-> o.date], TRUE, Cardinality(out))

\* SELECT STRFTIME('%H', timestamp) as hour, COUNT( * ) as motion_count ... ASC
SelectMotionByHour(table) ==
    LET out == {[motion_count |-> Count(g.rows), hour |-> g.label] :
                    g \in GroupBy(table, [r \in table |-> HourOf(r.timestamp)])}
    IN  OrderBy(out, [o \in out |-> o.hour], FALSE, Cardinality(out))

\* SELECT STRFTIME('%Y-%W', timestamp) as week, COUNT( * ) as motion_count ... DESC
SelectMotionByWeek(table) ==
    LET out == {[week |-> g.label, motion_count |-> Count(g.rows)] :
                    g \in GroupBy(table, [r \in table |-> WeekOf(r.timestamp)])}
    IN  OrderBy(out, [o \in out |-> o.week], TRUE, Cardinality(out))

\* Variant of SelectPeakTemperature: ORDER BY timestamp DESC LIMIT 1.
SelectLatestTemperature(table) ==
    OrderBy(table, TimestampKey(table), TRUE, PeakLimit)

\* SELECT * FROM temperature ORDER BY temperature DESC LIMIT 1
SelectPeakTemperature(table) ==
    OrderBy(table, [r \in table |-> <<r.temperature>>], TRUE, PeakLimit)

\* Variant of SelectPeakMotion: ORDER BY COUNT( * ) LIMIT 1, without DESC.
SelectLeastMotion(table) ==
    LET out == {[date |-> g.label, motion_count |-> Count(g.rows)] :
                    g \in GroupBy(table, [r \in table |-> DateOf(r.timestamp)])}
    IN  OrderBy(out, [o \in out |-> <<o.motion_count>>], FALSE, PeakLimit)

\* SELECT DATE(timestamp) as date, COUNT( * ) as motion_count FROM motion
\* GROUP BY DATE(timestamp) ORDER BY COUNT( * ) DESC LIMIT 1
SelectPeakMotion(table) ==
    LET out == {[date |-> g.label, motion_count |-> Count(g.rows)] :
                    g \in GroupBy(table, [r \in table |-> DateOf(r.timestamp)])}
    IN  OrderBy(out, [o \in out |-> <<o.motion_count>>], TRUE, PeakLimit)

\* ------------------------------------------------------------- stores
\* Rows in the order they were logged: ids ascend with the timestamps.
Logged(f, k) == \A i \in 1..(k - 1) : ~TextLess(f[i + 1][1], f[i][1])

TemperatureTables(k) ==
    {{[temperature |-> f[i][2], timestamp |-> f[i][1], id |-> i] : i \in 1..k} :
        f \in {g \in [1..k -> Timestamps \X Temperatures] : Logged(g, k)}}

MotionTables(k) ==
    {{[motion_detected |-> f[i][2], timestamp |-> f[i][1], id |-> i] : i \in 1..k} :
        f \in {g \in [1..k -> Timestamps \X MotionFlags] : Logged(g, k)}}

\* One table of at most MaxRows rows, the other empty.
SmallStores ==
    UNION {(TemperatureTables(k) \X {{}}) \cup ({{}} \X MotionTables(k)) :
             k \in 0..MaxRows}

\* Hourly timestamps from 1 January 2024 00h on.
BigTimestamp(p) == <<2024, 1, 1 + ((p - 1) \div 24), (p - 1) % 24>>

\* Position in time of row i of a table of n rows written oldest first
\* (ascending) or newest first; with `tie` the two oldest rows share a timestamp.
BigPosition(i, n, ascending, tie) ==
    LET p == IF ascending THEN i ELSE n + 1 - i
    IN  IF tie /\ p = 2 THEN 1 ELSE p

BigTemperatureTable(n, ascending, tie) ==
    {[temperature |-> IF i % 3 = 0 THEN 20 ELSE -5,
      timestamp |-> BigTimestamp(BigPosition(i, n, ascending, tie)),
      id |-> i] : i \in 1..n}

BigMotionTable(n, ascending, tie) ==
    {[motion_detected |-> i % 2,
      timestamp |-> BigTimestamp(BigPosition(i, n, ascending, tie)),
      id |-> i] : i \in 1..n}

BigSizes == {RawLimit, RawLimit + BigExtra}

\* One table of RawLimit rows or more, the other empty.
BigStores ==
    {<<BigTemperatureTable(n, a, t), {}>> : n \in BigSizes, a \in BOOLEAN, t \in BOOLEAN}
        \cup {<<{}, BigMotionTable(n, a, t)>> : n \in BigSizes, a \in BOOLEAN, t \in BOOLEAN}

Stores == SmallStores \cup BigStores

\* ---------------------------------------------------------- responses
NoRequest == [route |-> "none", args |-> NoArgs, body |-> NoBody]

NoResponse == [kind |-> "none", status |-> 0, payload |-> <<>>]

\* jsonify(payload): status 200
Json(kind, payload) == [kind |-> kind, status |-> 200, payload |-> payload]

\* jsonify({'error': message}), status
Error(status, message) == [kind |-> "error", status |-> status, payload |-> message]

\* Variant of OnException: a fixed message in place of str(e).
OnExceptionGeneric(message) == Error(500, "Internal Server Error")

\* except Exception as e: return jsonify({'error': str(e)}), 500
OnException(message) == Error(500, message)

\* One statement sent to the store; `raised` is the message of the exception
\* the driver raised, "" when it returned rows.
StoreQuery(statement, input, raised) ==
    [statement |-> statement, input |-> input, raised |-> raised, target |-> "store"]

\* One request sent to the text-generation service.
ClientCall(input, raised) ==
    [statement |-> "chat.completions.create", input |-> input,
     raised |-> raised, target |-> "client"]

NameErrorMessage == "name 'conn' is not defined"

TypeErrorMessage == "'NoneType' object is not iterable"

UnsupportedMediaTypeMessage == "415 Unsupported Media Type"

BadRequestMessage == "400 Bad Request"

IndexErrorMessage == "list index out of range"

AttributeErrorMessage == "'NoneType' object has no attribute 'strip'"

\* Variant of CursorAvailable: a connection is there whatever happened at import.
CursorAlwaysAvailable == TRUE

\* conn.cursor(): the name `conn` is bound only if the connection at import
\* succeeded.
CursorAvailable == conn = "connected"

\* cursor = conn.cursor(); cursor.execute(query): the statement goes to the
\* store, unless conn.cursor() raised.
Execute(statement, input) ==
    IF ~CursorAvailable
    THEN {[response |-> OnException(NameErrorMessage), outbound |-> <<>>]}
    ELSE {[response |-> NoResponse, outbound |-> <<StoreQuery(statement, input, "")>>]}

\* Variant of FetchAll: a failed statement is sent a second time.
FetchAllRetry(statement, input, results) ==
    {[response |-> OnException(e),
      outbound |-> <<StoreQuery(statement, input, e),
                     StoreQuery(statement, input, e)>>] : e \in StoreErrors}
        \cup {[response |-> Json("array", rs),
               outbound |-> <<StoreQuery(statement, input, "")>>] : rs \in results}

\* cursor.execute(...) raises or returns; rows = cursor.fetchall(); results =
\* [dict(zip(columns, row)) ...]; return jsonify(results)  -- inside try/except
FetchAll(statement, input, results) ==
    {[response |-> OnException(e),
      outbound |-> <<StoreQuery(statement, input, e)>>] : e \in StoreErrors}
        \cup {[response |-> Json("array", rs),
               outbound |-> <<StoreQuery(statement, input, "")>>] : rs \in results}

\* Variant of FetchOne: an absent row is answered as an empty object.
FetchOneOrEmpty(statement, results) ==
    {[response |-> OnException(e),
      outbound |-> <<StoreQuery(statement, <<>>, e)>>] : e \in StoreErrors}
        \cup {[response |-> IF rs = <<>> THEN Json("object", <<>>)
                            ELSE Json("object", rs[1]),
               outbound |-> <<StoreQuery(statement, <<>>, "")>>] : rs \in results}

\* cursor.execute(...) raises or returns; row = cursor.fetchone(); result =
\* dict(zip(columns, row)); return jsonify(result)  -- zip raises TypeError
\* when row is None
FetchOne(statement, results) ==
    {[response |-> OnException(e),
      outbound |-> <<StoreQuery(statement, <<>>, e)>>] : e \in StoreErrors}
        \cup {[response |-> IF rs = <<>> THEN OnException(TypeErrorMessage)
                            ELSE Json("object", rs[1]),
               outbound |-> <<StoreQuery(statement, <<>>, "")>>] : rs \in results}

\* Variant of Missing: `start_date is None`, which lets '' through.
MissingOnlyAbsent(param) == ~param.present

\* `not start_date`: the parameter is missing or the empty string
Missing(param) == ~param.present \/ param.value = <<>>

\* The two range handlers up to cursor.execute: the check of the two
\* parameters, then the statement.
RangeCheck(statement, args) ==
    IF Missing(args.start_date) \/ Missing(args.end_date)
    THEN {[response |-> Error(400, "Start date and end date are required"),
           outbound |-> <<>>]}
    ELSE Execute(statement, <<args.start_date.value, args.end_date.value>>)

\* The two range handlers from cursor.execute on.
RangeOutcomes(statement, table, args) ==
    FetchAll(statement, <<args.start_date.value, args.end_date.value>>,
             SelectRange(table, args.start_date.value, args.end_date.value))

\* request.json: the parsed body.  Without a JSON content type the framework
\* either yields None or raises 415, depending on its version; an unparsable
\* body raises 400.  Both exceptions are Exceptions the handler catches.
GetJson(body) ==
    IF body.kind = "absent"
    THEN {[value |-> [type |-> "null", members |-> {}], raised |-> ""],
          [value |-> [type |-> "null", members |-> {}],
           raised |-> UnsupportedMediaTypeMessage]}
    ELSE IF body.kind = "malformed"
    THEN {[value |-> [type |-> "null", members |-> {}], raised |-> BadRequestMessage]}
    ELSE {[value |-> body.json, raised |-> ""]}

\* Python truth value of a parsed JSON value
Truthy(v) == v.type \in {"object", "array"} /\ v.members # {}

RECURSIVE LStrip(_)
LStrip(s) == IF s # <<>> /\ Head(s) = " " THEN LStrip(Tail(s)) ELSE s

RECURSIVE RStrip(_)
RStrip(s) ==
    IF s # <<>> /\ s[Len(s)] = " " THEN RStrip(SubSeq(s, 1, Len(s) - 1)) ELSE s

\* str.strip()
Strip(s) == RStrip(LStrip(s))

\* `if not data: return ... 400`
NoData(data) == ~Truthy(data)

\* get_summary up to client.chat.completions.create: the body is read and
\* checked, then the request goes to the service.
SummaryCheck(body) ==
    {IF p.raised # ""
     THEN [response |-> OnException(p.raised), outbound |-> <<>>]
     ELSE IF NoData(p.value)
     THEN [response |-> Error(400, "No data provided"), outbound |-> <<>>]
     ELSE [response |-> NoResponse, outbound |-> <<ClientCall(p.value, "")>>]
     : p \in GetJson(body)}

\* completion.choices[0].message.content.strip() on the completion the call
\* returned: the message's text stripped, or the exception raised on the way
\* to it (no choice in the list, a message without content).
SummaryOf(completion) ==
    IF completion.choices = 0
    THEN [value |-> <<>>, raised |-> IndexErrorMessage]
    ELSE IF ~completion.content.present
    THEN [value |-> <<>>, raised |-> AttributeErrorMessage]
    ELSE [value |-> Strip(completion.content.value), raised |-> ""]

\* get_summary from client.chat.completions.create on: the call raises, or
\* returns a completion whose text is stripped and returned.
SummaryOutcomes(body) ==
    {[response |-> OnException(e),
      outbound |-> <<ClientCall(body.json, e)>>] : e \in ClientErrors}
        \cup {[response |-> IF SummaryOf(c).raised # ""
                            THEN OnException(SummaryOf(c).raised)
                            ELSE Json("summary", SummaryOf(c).value),
               outbound |-> <<ClientCall(body.json, "")>>] : c \in Completions}

\* ------------------------------------------------------------ actions
Init ==
    /\ phase = "boot"
    /\ conn = "unbound"
    /\ \E store \in Stores :
           /\ temperature = store[1]
           /\ motion = store[2]
    /\ waiting = EmptyBag
    /\ request = NoRequest
    /\ response = NoResponse
    /\ outbound = <<>>

\* try: conn = sqlitecloud.connect(...)  except Exception: print(...)
\* The module is imported before any request is served.
ConnectStartup ==
    /\ phase = "boot"
    /\ \E connected \in BOOLEAN :
           conn' = IF connected THEN "connected" ELSE "unbound"
    /\ phase' = "serving"
    /\ UNCHANGED <<temperature, motion, waiting, request, response, outbound>>

\* A view blocked in its call: its request and the operation it sent.
Blocked(req, operation) == [request |-> req, outbound |-> <<operation>>]

\* A request for `route` is received, fewer than MaxViews views being in
\* progress, and the view
\* runs up to its call (cursor.execute, chat.completions.create), where it
\* waits with the operation sent, or up to its return when it makes no call.
Enter(route, args, body, before) ==
    LET req == [route |-> route, args |-> args, body |-> body]
    IN  /\ phase = "serving"
        /\ BagCardinality(waiting) < MaxViews
        /\ \E o \in before :
               IF o.outbound = <<>>
               THEN /\ phase' = "responded"
                    /\ request' = req
                    /\ response' = o.response
                    /\ outbound' = <<>>
                    /\ UNCHANGED waiting
               ELSE /\ waiting' = waiting (+) SetToBag({Blocked(req, o.outbound[1])})
                    /\ UNCHANGED <<phase, request, response, outbound>>
        /\ UNCHANGED <<conn, temperature, motion>>

\* The call a view of `route` waits in returns or raises, and the view runs
\* on to its return.
Resume(route, args, body, after) ==
    LET req == [route |-> route, args |-> args, body |-> body]
    IN  /\ phase = "serving"
        /\ \E w \in BagToSet(waiting) :
               /\ w.request = req
               /\ \E o \in after :
                      /\ [o.outbound[1] EXCEPT !.raised = ""] = w.outbound[1]
                      /\ response' = o.response
                      /\ outbound' = o.outbound
               /\ waiting' = waiting (-) SetToBag({w})
        /\ request' = req
        /\ phase' = "responded"
        /\ UNCHANGED <<conn, temperature, motion>>

\* One step of a view of `route`: `before` is the view up to its call,
\* `after` the view from its call on.
Handle(route, args, body, before, after) ==
    \/ Enter(route, args, body, before)
    \/ Resume(route, args, body, after)

get_summary ==
    \E body \in Bodies :
        Handle("get_summary", NoArgs, body, SummaryCheck(body), SummaryOutcomes(body))

get_temperature_data ==
    Handle("get_temperature_data", NoArgs, NoBody,
           Execute("temperature_raw", <<>>),
           FetchAll("temperature_raw", <<>>, SelectRaw(temperature)))

get_motion_data ==
    Handle("get_motion_data", NoArgs, NoBody,
           Execute("motion_raw", <<>>),
           FetchAll("motion_raw", <<>>, SelectRaw(motion)))

get_daily_temperature_average ==
    Handle("get_daily_temperature_average", NoArgs, NoBody,
           Execute("temperature_average_day", <<>>),
           FetchAll("temperature_average_day", <<>>, SelectDailyAverage(temperature)))

get_weekly_temperature_average ==
    Handle("get_weekly_temperature_average", NoArgs, NoBody,
           Execute("temperature_average_week", <<>>),
           FetchAll("temperature_average_week", <<>>, SelectWeeklyAverage(temperature)))

get_monthly_temperature_average ==
    Handle("get_monthly_temperature_average", NoArgs, NoBody,
           Execute("temperature_average_month", <<>>),
           FetchAll("temperature_average_month", <<>>, SelectMonthlyAverage(temperature)))

get_motion_by_day ==
    Handle("get_motion_by_day", NoArgs, NoBody,
           Execute("motion_by_day", <<>>),
           FetchAll("motion_by_day", <<>>, SelectMotionByDay(motion)))

get_temperature_by_day ==
    Handle("get_temperature_by_day", NoArgs, NoBody,
           Execute("temperature_by_day", <<>>),
           FetchAll("temperature_by_day", <<>>, SelectDailyAverage(temperature)))

get_motion_by_hour ==
    Handle("get_motion_by_hour", NoArgs, NoBody,
           Execute("motion_by_hour", <<>>),
           FetchAll("motion_by_hour", <<>>, SelectMotionByHour(motion)))

get_motion_by_week ==
    Handle("get_motion_by_week", NoArgs, NoBody,
           Execute("motion_by_week", <<>>),
           FetchAll("motion_by_week", <<>>, SelectMotionByWeek(motion)))

get_temperature_in_range ==
    \E s \in Params, e \in Params :
        LET args == [start_date |-> s, end_date |-> e]
        IN  Handle("get_temperature_in_range", args, NoBody,
                   RangeCheck("temperature_range", args),
                   RangeOutcomes("temperature_range", temperature, args))

get_motion_in_range ==
    \E s \in Params, e \in Params :
        LET args == [start_date |-> s, end_date |-> e]
        IN  Handle("get_motion_in_range", args, NoBody,
                   RangeCheck("motion_range", args),
                   RangeOutcomes("motion_range", motion, args))

get_peak_temperature ==
    Handle("get_peak_temperature", NoArgs, NoBody,
           Execute("temperature_peak", <<>>),
           FetchOne("temperature_peak", SelectPeakTemperature(temperature)))

get_peak_motion ==
    Handle("get_peak_motion", NoArgs, NoBody,
           Execute("motion_peak", <<>>),
           FetchOne("motion_peak", SelectPeakMotion(motion)))

\* The response goes out and the view's locals are gone; its thread is free.
SendResponse ==
    /\ phase = "responded"
    /\ phase' = "serving"
    /\ request' = NoRequest
    /\ response' = NoResponse
    /\ outbound' = <<>>
    /\ UNCHANGED <<conn, temperature, motion, waiting>>

Next ==
    \/ ConnectStartup
    \/ get_summary
    \/ get_temperature_data
    \/ get_motion_data
    \/ get_daily_temperature_average
    \/ get_weekly_temperature_average
    \/ get_monthly_temperature_average
    \/ get_motion_by_day
    \/ get_temperature_by_day
    \/ get_motion_by_hour
    \/ get_motion_by_week
    \/ get_temperature_in_range
    \/ get_motion_in_range
    \/ get_peak_temperature
    \/ get_peak_motion
    \/ SendResponse

Spec == Init /\ [][Next]_vars

\* The same process over the exhaustively enumerated stores only.
InitSmall ==
    /\ Init
    /\ <<temperature, motion>> \in SmallStores

SpecSmall == InitSmall /\ [][Next]_vars

\* ------------------------------------------------------------- claims
Responded == phase = "responded"

RangeRoutes == {"get_temperature_in_range", "get_motion_in_range"}

RawRoutes == {"get_temperature_data", "get_motion_data"}

\* '' or not supplied
Unsupplied(param) == ~param.present \/ Len(param.value) = 0

BoundMissing ==
    Unsupplied(request.args.start_date) \/ Unsupplied(request.args.end_date)

\* C1: on both range-fetch routes a request whose start_date or end_date is
\* absent or empty is answered 400 with an error body, whether or not the
\* store connection exists, and no query has been sent to the store.
C1_RangeMissingBoundRejected ==
    (Responded /\ request.route \in RangeRoutes /\ BoundMissing)
        => /\ response.status = 400
           /\ response.kind = "error"
           /\ outbound = <<>>

\* C1 witness: a temperature range request with start_date supplied and
\* end_date empty, rejected while the connection is missing.
C1_Witness ==
    /\ Responded
    /\ request.route = "get_temperature_in_range"
    /\ request.args.start_date = [present |-> TRUE, value |-> <<2024, 1, 1>>]
    /\ request.args.end_date = [present |-> TRUE, value |-> <<>>]
    /\ conn = "unbound"
    /\ response.status = 400

\* The JSON body is an object with a `data` field.
HasData(body) ==
    body.kind = "json" /\ body.json.type = "object" /\ "data" \in body.json.members

\* C2 (as claimed): POST /summarize with no body, or with a JSON body that has
\* no `data` field, is answered 400 with an error body and the service is not
\* called; a body with a `data` field reaches the service and, when the call
\* succeeds, is answered 200 with a summary.
C2_SummarizeRequiresData ==
    (Responded /\ request.route = "get_summary")
        => IF HasData(request.body)
           THEN /\ Len(outbound) = 1
                /\ outbound[1].target = "client"
                /\ outbound[1].raised = ""
                       => response.status = 200 /\ response.kind = "summary"
           ELSE /\ response.status = 400
                /\ response.kind = "error"
                /\ outbound = <<>>

\* C3: an exception raised by the store query or by the service call ends the
\* request with status 500 and the exception's message as the error; there is
\* no second attempt and no partial result; a response that is not a success
\* is 400 or 500 with an error body, 400 only when a required input is missing.
C3_FailuresSurfaceOnce ==
    Responded
        => /\ Len(outbound) <= 1
           /\ (Len(outbound) = 1 /\ outbound[1].raised # "")
                  => response = [kind |-> "error", status |-> 500,
                                 payload |-> outbound[1].raised]
           /\ response.status # 200
                  => response.status \in {400, 500} /\ response.kind = "error"
           /\ response.status = 400
                  => \/ request.route \in RangeRoutes /\ BoundMissing
                     \/ request.route = "get_summary" /\ ~HasData(request.body)

\* C3 witness: a weekly-average request whose query the store failed.
C3_Witness ==
    /\ Responded
    /\ request.route = "get_weekly_temperature_average"
    /\ Len(outbound) = 1
    /\ outbound[1].raised = "no such table"
    /\ response.status = 500
    /\ response.payload = "no such table"

\* The table a route reads.
TableOf(route) ==
    IF route \in {"get_motion_data", "get_motion_by_day", "get_motion_by_hour",
                  "get_motion_by_week", "get_motion_in_range", "get_peak_motion"}
    THEN motion ELSE temperature

\* The statement was sent and the store answered it.
StoreAnswered == Len(outbound) = 1 /\ outbound[1].raised = ""

Elements(seq) == {seq[i] : i \in 1..Len(seq)}

NoRepeat(seq) == \A i, j \in 1..Len(seq) : seq[i] = seq[j] => i = j

\* Newest first: no element has an earlier timestamp than its successor.
NewestFirst(seq) ==
    \A i \in 1..(Len(seq) - 1) : ~TextLess(seq[i].timestamp, seq[i + 1].timestamp)

\* C4: a successful raw fetch returns at most 100 rows of the table, newest
\* first, such that no row left out is newer than a returned row, and the
\* whole table when it has 100 rows or fewer.
C4_RawFetchNewestHundred ==
    (Responded /\ request.route \in RawRoutes /\ response.status = 200)
        => LET table == TableOf(request.route)
               rs == response.payload
           IN  /\ response.kind = "array"
               /\ Len(rs) <= 100
               /\ Elements(rs) \subseteq table
               /\ NoRepeat(rs)
               /\ NewestFirst(rs)
               /\ \A r \in table \ Elements(rs) : \A x \in Elements(rs) :
                      ~TextLess(x.timestamp, r.timestamp)
               /\ Cardinality(table) <= 100 => Elements(rs) = table
               /\ Cardinality(table) > 100 => Len(rs) = 100

\* C4 witness: a raw fetch of a temperature table of more than 100 rows
\* answered with 100 of them.
C4_Witness ==
    /\ Responded
    /\ request.route = "get_temperature_data"
    /\ response.status = 200
    /\ Cardinality(temperature) > 100
    /\ Len(response.payload) = 100

\* Both bounds are dates, 'YYYY-MM-DD'.
DateBounds ==
    /\ request.args.start_date.present /\ Len(request.args.start_date.value) = 3
    /\ request.args.end_date.present /\ Len(request.args.end_date.value) = 3

\* The day of the row's timestamp lies between the two dates, ends included.
OnDayWithin(r) ==
    /\ ~TextLess(DateOf(r.timestamp), request.args.start_date.value)
    /\ ~TextLess(request.args.end_date.value, DateOf(r.timestamp))

\* C5 (as claimed): a successful range fetch between two dates returns exactly
\* the rows timestamped from the start date to the end date, rows on the end
\* date included, newest first.
C5_RangeIncludesEndDate ==
    (Responded /\ request.route \in RangeRoutes /\ DateBounds /\ response.status = 200)
        => LET table == TableOf(request.route)
               rs == response.payload
           IN  /\ Elements(rs) = {r \in table : OnDayWithin(r)}
               /\ NoRepeat(rs)
               /\ NewestFirst(rs)

\* The value is the mean of the temperatures of the rows g.
IsMean(v, g) ==
    /\ v.den > 0
    /\ v.num * Cardinality(g) = v.den * SumTemperature(g)

\* One object per distinct bucket of the table, each carrying the mean (or the
\* number) of the rows of its bucket, ordered by label.
AggregateOf(rs, table, Bucket(_), Label(_), Value(_), mean, desc) ==
    /\ {Label(o) : o \in Elements(rs)} = {Bucket(r.timestamp) : r \in table}
    /\ Len(rs) = Cardinality({Bucket(r.timestamp) : r \in table})
    /\ \A o \in Elements(rs) :
           LET g == {r \in table : Bucket(r.timestamp) = Label(o)}
           IN  IF mean THEN IsMean(Value(o), g) ELSE Value(o) = Cardinality(g)
    /\ \A i \in 1..(Len(rs) - 1) :
           IF desc THEN TextLess(Label(rs[i + 1]), Label(rs[i]))
                   ELSE TextLess(Label(rs[i]), Label(rs[i + 1]))

FieldDate(o) == o.date

FieldWeek(o) == o.week

FieldMonth(o) == o.month

FieldHour(o) == o.hour

FieldAverage(o) == o.average_temp

FieldCount(o) == o.motion_count

\* C6: every periodic-aggregate route returns one object per distinct bucket
\* of its table, carrying the mean temperature or the number of motion rows
\* (whatever their flag) of the bucket, labels descending, hours ascending.
C6_AggregatesPerBucket ==
    (Responded /\ response.status = 200)
        => LET rs == response.payload
           IN  /\ request.route \in {"get_daily_temperature_average",
                                     "get_temperature_by_day"}
                      => AggregateOf(rs, temperature, DateOf, FieldDate,
                                     FieldAverage, TRUE, TRUE)
               /\ request.route = "get_weekly_temperature_average"
                      => AggregateOf(rs, temperature, WeekOf, FieldWeek,
                                     FieldAverage, TRUE, TRUE)
               /\ request.route = "get_monthly_temperature_average"
                      => AggregateOf(rs, temperature, MonthOf, FieldMonth,
                                     FieldAverage, TRUE, TRUE)
               /\ request.route = "get_motion_by_day"
                      => AggregateOf(rs, motion, DateOf, FieldDate,
                                     FieldCount, FALSE, TRUE)
               /\ request.route = "get_motion_by_week"
                      => AggregateOf(rs, motion, WeekOf, FieldWeek,
                                     FieldCount, FALSE, TRUE)
               /\ request.route = "get_motion_by_hour"
                      => AggregateOf(rs, motion, HourOf, FieldHour,
                                     FieldCount, FALSE, FALSE)

\* C6 witness: motion counted by day over two days, one of them holding a row
\* whose flag is 0.
C6_Witness ==
    /\ Responded
    /\ request.route = "get_motion_by_day"
    /\ response.status = 200
    /\ Len(response.payload) = 2
    /\ \E r \in motion : r.motion_detected = 0

\* C7: on a non-empty temperature table the peak route, when the store answers,
\* returns one object that is a row of the table and whose temperature no row
\* of the table exceeds.
C7_PeakTemperatureIsMaximum ==
    (Responded /\ request.route = "get_peak_temperature"
               /\ temperature # {} /\ StoreAnswered)
        => /\ response.status = 200
           /\ response.kind = "object"
           /\ response.payload \in temperature
           /\ \A r \in temperature : r.temperature <= response.payload.temperature

\* C7 witness: the peak of a table whose newest row is not its warmest.
C7_Witness ==
    /\ Responded
    /\ request.route = "get_peak_temperature"
    /\ response.status = 200
    /\ \E r \in temperature :
           /\ r.temperature < response.payload.temperature
           /\ TextLess(response.payload.timestamp, r.timestamp)

\* Number of motion rows on calendar day d.
RowsOnDay(d) == Cardinality({r \in motion : DateOf(r.timestamp) = d})

\* C8: on a non-empty motion table the peak route, when the store answers,
\* returns one {date, motion_count} object whose date is a day of the table,
\* whose count is the number of rows of that day, and no day has more rows.
C8_PeakMotionIsBusiestDay ==
    (Responded /\ request.route = "get_peak_motion" /\ motion # {} /\ StoreAnswered)
        => /\ response.status = 200
           /\ response.kind = "object"
           /\ response.payload.date \in {DateOf(r.timestamp) : r \in motion}
           /\ response.payload.motion_count = RowsOnDay(response.payload.date)
           /\ \A r \in motion :
                  RowsOnDay(DateOf(r.timestamp)) <= response.payload.motion_count

\* C8 witness: the peak of a table with a day that has fewer rows.
C8_Witness ==
    /\ Responded
    /\ request.route = "get_peak_motion"
    /\ response.status = 200
    /\ \E r \in motion : RowsOnDay(DateOf(r.timestamp)) < response.payload.motion_count

\* The request got as far as conn.cursor(): a data route past its input check.
TouchesConnection ==
    /\ request.route # "get_summary"
    /\ ~(request.route \in RangeRoutes /\ BoundMissing)

\* What a request is answered when the connection at import failed.
BrokenConnectionAnswer ==
    (Responded /\ conn = "unbound")
        => IF TouchesConnection
           THEN /\ response.status = 500
                /\ response.kind = "error"
                /\ outbound = <<>>
           ELSE IF request.route = "get_summary"
           THEN /\ HasData(request.body) => Len(outbound) = 1
                /\ response.payload # NameErrorMessage
                /\ (Len(outbound) = 1 /\ outbound[1].raised = "")
                       => \/ response.status = 200 /\ response.kind = "summary"
                          \/ /\ response.status = 500
                             /\ response.kind = "error"
                             /\ response.payload \in {IndexErrorMessage,
                                                      AttributeErrorMessage}
           ELSE /\ response.status = 400
                /\ response.kind = "error"

\* Without a connection no view gets as far as sending a statement: the views
\* waiting in a call are those of POST /summarize.
NoStatementWithoutConnection ==
    conn = "unbound" => \A w \in BagToSet(waiting) : w.request.route = "get_summary"

\* Once serving without a connection, the process goes on serving without one.
StaysBroken ==
    (phase # "boot" /\ conn = "unbound") => (phase' # "boot" /\ conn' = "unbound")

\* C9: a failed connection at start is swallowed and the process serves on;
\* from then on every request that reaches the connection is answered 500
\* with an error body and no statement sent, never 200 and never by an
\* escaping exception, while a range request missing a bound is answered 400
\* and POST /summarize still reaches the service and is answered as the
\* service's answer commands: 200 when it carries a text.
C9_BrokenConnectionSurfacesAs500 ==
    /\ []BrokenConnectionAnswer
    /\ []NoStatementWithoutConnection
    /\ [][StaysBroken]_vars

\* C9 witness: a raw temperature fetch answered 500 with the NameError's
\* message after the connection failed at import.
C9_Witness ==
    /\ Responded
    /\ conn = "unbound"
    /\ request.route = "get_temperature_data"
    /\ response.status = 500
    /\ response.payload = NameErrorMessage

\* The service for POST /summarize, the store for the data routes.
TargetOf(route) == IF route = "get_summary" THEN "client" ELSE "store"

\* C10 (as claimed): every request, whatever its outcome, has issued exactly
\* one outbound operation when it responds.
C10_ExactlyOneOutbound == Responded => Len(outbound) = 1

\* C10 (amended): a request issues at most one outbound operation, to the
\* store on a data route and to the service on POST /summarize; exactly one
\* that was answered when it responds 200, and none when it responds 400; a
\* view waiting in its call has sent that one operation.
C10_AtMostOneOutbound ==
    /\ Responded
        => /\ Len(outbound) <= 1
           /\ Len(outbound) = 1 => outbound[1].target = TargetOf(request.route)
           /\ response.status = 200 => Len(outbound) = 1 /\ outbound[1].raised = ""
           /\ response.status = 400 => outbound = <<>>
    /\ \A w \in BagToSet(waiting) :
           /\ Len(w.outbound) = 1
           /\ w.outbound[1].target = TargetOf(w.request.route)

\* C10 witness: a motion range request with no end_date, answered 400 with
\* nothing sent to the store although the connection is there.
C10_Witness ==
    /\ Responded
    /\ request.route = "get_motion_in_range"
    /\ conn = "connected"
    /\ ~request.args.end_date.present
    /\ response.status = 400
    /\ outbound = <<>>

\* The routes answering with the single row cursor.fetchone() returned.
PeakRoutes == {"get_peak_temperature", "get_peak_motion"}

\* The request's statement was sent to the store, which answered it, and the
\* table it reads holds no row.
EmptyTableQueried ==
    /\ Responded
    /\ Len(outbound) = 1
    /\ outbound[1].target = "store"
    /\ outbound[1].raised = ""
    /\ TableOf(request.route) = {}

\* C11: when the queried table is empty and the store answers, the raw-fetch,
\* range-fetch and periodic-aggregate routes respond 200 with an empty array,
\* whereas both peak routes respond 500 with an error body carrying the
\* TypeError raised by building the result from the absent row; a peak
\* request the store answered ends in 500 only when its table is empty.
C11_EmptyTableArrayOrPeakError ==
    /\ EmptyTableQueried
        => IF request.route \in PeakRoutes
           THEN /\ response.status = 500
                /\ response.kind = "error"
                /\ response.payload = TypeErrorMessage
           ELSE /\ response.status = 200
                /\ response.kind = "array"
                /\ response.payload = <<>>
    /\ (/\ Responded
        /\ request.route \in PeakRoutes
        /\ Len(outbound) = 1
        /\ outbound[1].raised = ""
        /\ response.status = 500)
        => TableOf(request.route) = {}

\* C11 witness: the motion peak asked of an empty motion table over a working
\* connection: the statement is sent and answered, the response is 500.
C11_Witness ==
    /\ EmptyTableQueried
    /\ conn = "connected"
    /\ request.route = "get_peak_motion"
    /\ response.status = 500
    /\ response.payload = TypeErrorMessage

====
